---- MODULE Spec2Model ----
(***************************************************************************)
(* Model of partner_agent_dify.py: the checklist/document extraction       *)
(* pipeline (load_config, read_word_file, process_excel_row,               *)
(* convert_list_to_str, process_documents, __main__).                      *)
(*                                                                         *)
(* Text is a sequence of one-token strings.  The Chinese literals of the   *)
(* source are written in ASCII: "FAILED" is the sentinel of lines 118-120, *)
(* "NOT_EXTRACTED" the marker of line 129.                                 *)
(***************************************************************************)
EXTENDS Integers, Sequences, FiniteSets, TLC

VARIABLES norm, unit, pc, cfg, rows, headers, docIdx, rowIdx, file_text,
          new_ws, files, calls, results, docStatus

vars == <<norm, unit, pc, cfg, rows, headers, docIdx, rowIdx, file_text,
          new_ws, files, calls, results, docStatus>>

pipeVars == <<pc, cfg, rows, headers, docIdx, rowIdx, file_text,
              new_ws, files, calls, results, docStatus>>

(***************************************************************************)
(* Bounds of the model.                                                    *)
(***************************************************************************)
MaxParas == 2
MaxChars == 4
MaxAnswerLen == 3
MaxListLen == 2
MaxRows == 2
MaxDocs == 2
ExtraCols == 0

(***************************************************************************)
(* Generic text helpers.                                                   *)
(***************************************************************************)
RECURSIVE RunLen(_, _)
RunLen(s, class) ==
  IF s = <<>> \/ Head(s) \notin class THEN 0 ELSE 1 + RunLen(Tail(s), class)

Drop(s, n) == SubSeq(s, n + 1, Len(s))

\* re.sub(class{minlen,}, repl, s): every maximal run of characters of
\* `class` of length >= minlen is replaced by repl (the quantifier is greedy).
RECURSIVE re_sub(_, _, _, _)
re_sub(class, minlen, repl, s) ==
  IF s = <<>> THEN <<>>
  ELSE LET n == RunLen(s, class) IN
       IF n >= minlen /\ n > 0
         THEN repl \o re_sub(class, minlen, repl, Drop(s, n))
       ELSE IF n > 0
         THEN SubSeq(s, 1, n) \o re_sub(class, minlen, repl, Drop(s, n))
       ELSE <<Head(s)>> \o re_sub(class, minlen, repl, Tail(s))

RECURSIVE lstrip(_, _)
lstrip(s, class) ==
  IF s # <<>> /\ Head(s) \in class THEN lstrip(Tail(s), class) ELSE s

RECURSIVE rstrip(_, _)
rstrip(s, class) ==
  IF s # <<>> /\ s[Len(s)] \in class
    THEN rstrip(SubSeq(s, 1, Len(s) - 1), class) ELSE s

\* str.strip(): whitespace removed at both ends.
strip(s, class) == rstrip(lstrip(s, class), class)

\* sep.join(parts)
RECURSIVE join(_, _)
join(sep, parts) ==
  IF parts = <<>> THEN <<>>
  ELSE IF Len(parts) = 1 THEN parts[1]
  ELSE parts[1] \o sep \o join(sep, Tail(parts))

(***************************************************************************)
(* read_word_file (lines 41-63).  Characters of a paragraph:               *)
(*   "ctl"  a control character of \x00-\x1F other than newline            *)
(*   "ideo" the ideographic space \u3000                                 *)
(*   "sp"   an ordinary blank          "nl"  the newline \n                *)
(*   "dot"  a period                   "a"   an ordinary letter            *)
(***************************************************************************)
Alphabet == {"ctl", "ideo", "sp", "nl", "dot", "a"}

\* [\x00-\x1F\u3000\s] of line 50
CleanClass == {"ctl", "ideo", "sp", "nl"}

\* what str.strip() removes: Unicode whitespace
PyWhitespace == {"ideo", "sp", "nl"}

\* mutant of cleaned: the control-character range is missing from the class
cleaned_keeps_ctl(para) ==
  strip(re_sub(PyWhitespace, 1, <<"sp">>, para), PyWhitespace)

\* line 50
cleaned(para) == strip(re_sub(CleanClass, 1, <<"sp">>, para), PyWhitespace)

\* lines 48-52: the paragraphs that are not empty once cleaned, in order
RECURSIVE cleaned_paragraphs(_)
cleaned_paragraphs(paras) ==
  IF paras = <<>> THEN <<>>
  ELSE LET c == cleaned(Head(paras)) IN
       (IF c # <<>> THEN <<c>> ELSE <<>>) \o cleaned_paragraphs(Tail(paras))

\* lines 55-57 and 60
read_word_file(paras) ==
  LET joined == join(<<"nl">>, cleaned_paragraphs(paras))
      nodots == re_sub({"dot"}, 4, <<"sp">>, joined)
  IN  re_sub({"nl"}, 3, <<"nl", "nl">>, nodots)

(***************************************************************************)
(* JSON values of the structured payload.  A value is a record             *)
(* [t, s, items]: t is its JSON type ("absent" stands for a key the object *)
(* does not hold), s the text of a scalar, items the elements of a list.   *)
(***************************************************************************)
JAbsent == [t |-> "absent", s |-> <<>>, items |-> <<>>]
JNull == [t |-> "null", s |-> <<>>, items |-> <<>>]
JStr(s) == [t |-> "str", s |-> s, items |-> <<>>]
JNum(s) == [t |-> "num", s |-> s, items |-> <<>>]
JList(items) == [t |-> "list", s |-> <<>>, items |-> items]

\* Python's str(x) of a decoded JSON scalar
py_str(v) == IF v.t = "null" THEN <<"None">> ELSE v.s

\* line 129: the marker written for a null value
NotExtracted == <<"NOT_EXTRACTED">>

\* lines 124-129
convert_list_to_str(data) ==
  IF data.t = "list"
    THEN join(<<"nl">>, [i \in 1..Len(data.items) |-> py_str(data.items[i])])
    ELSE py_str(IF data.t # "null" THEN data ELSE JStr(NotExtracted))

\* dict.get(key, default)
dict_get(d, key, default) == IF d[key].t = "absent" THEN default ELSE d[key]

\* lines 109-114: the returned dict.  summary, clause_numbers and clause_text
\* are the three Chinese keys of the source, in the order of lines 110-112.
extracted_result(result) ==
  [summary        |-> convert_list_to_str(dict_get(result, "summary", JStr(<<>>))),
   clause_numbers |-> convert_list_to_str(dict_get(result, "clause_numbers", JStr(<<>>))),
   clause_text    |-> convert_list_to_str(dict_get(result, "clause_text", JStr(<<>>))),
   error          |-> <<>>]

(***************************************************************************)
(* The answer text, as a sequence of lexical pieces:                       *)
(*   "fence_json"  the characters ```json      "fence"  ``` not followed   *)
(*   "ws" white space    "txt" prose            by json                    *)
(*   "obj" the text of a JSON object    "arr" the text of a JSON array     *)
(***************************************************************************)
AnswerTokens == {"fence_json", "fence", "ws", "txt", "obj", "arr"}

RECURSIVE find_from(_, _, _)
find_from(s, i, class) ==
  IF i > Len(s) THEN 0
  ELSE IF s[i] \in class THEN i ELSE find_from(s, i + 1, class)

\* line 104: re.search(r'```json(.*?)```', answer, re.DOTALL).  The closing
\* ``` is matched by the first three characters of a later ```json too.
json_match(answer) ==
  LET open  == find_from(answer, 1, {"fence_json"})
      close == IF open = 0 THEN 0
               ELSE find_from(answer, open + 1, {"fence", "fence_json"})
  IN  IF open = 0 \/ close = 0
        THEN [found |-> FALSE, group1 |-> <<>>]
        ELSE [found |-> TRUE, group1 |-> SubSeq(answer, open + 1, close - 1)]

\* line 108: json.loads(json_match.group(1).strip())
json_loads(text) ==
  LET t == strip(text, {"ws"}) IN
  [ok |-> t \in {<<"obj">>, <<"arr">>}, isdict |-> t = <<"obj">>]

(***************************************************************************)
(* process_excel_row (lines 66-122).  oc is what the environment answers   *)
(* to the call of this invocation: the outcome of requests.post, the HTTP  *)
(* status and the body.                                                    *)
(***************************************************************************)
FailureSentinel == <<"FAILED">>

NoValue == [summary |-> <<>>, clause_numbers |-> <<>>, clause_text |-> <<>>,
            error |-> <<>>]

\* json.dumps raises TypeError on a datetime cell
serializable(cell) == cell.kind # "date"

\* mutant of raise_for_status: only server errors raise
raise_for_status_5xx(status) == 500 <= status /\ status < 600

\* line 95: Response.raise_for_status raises HTTPError for 4xx and 5xx
raise_for_status(status) == 400 <= status /\ status < 600

\* mutant of except_handler: the error text is dropped
except_handler_no_error(row, msg, sent, stage) ==
  IF Len(row) = 0
    THEN [kind |-> "raise", exc |-> <<"IndexError">>, value |-> NoValue,
          sent |-> sent, stage |-> stage]
    ELSE [kind |-> "return", exc |-> <<>>,
          value |-> [summary |-> FailureSentinel,
                     clause_numbers |-> FailureSentinel,
                     clause_text |-> FailureSentinel,
                     error |-> <<>>],
          sent |-> sent, stage |-> stage]

\* lines 115-122: the handler evaluates row[0] for its log line (116), which
\* raises IndexError out of the function when the row has no cell.
except_handler(row, msg, sent, stage) ==
  IF Len(row) = 0
    THEN [kind |-> "raise", exc |-> <<"IndexError">>, value |-> NoValue,
          sent |-> sent, stage |-> stage]
    ELSE [kind |-> "return", exc |-> <<>>,
          value |-> [summary |-> FailureSentinel,
                     clause_numbers |-> FailureSentinel,
                     clause_text |-> FailureSentinel,
                     error |-> msg],
          sent |-> sent, stage |-> stage]

\* lines 97-114, once the status check has passed
extract(row, body) ==
  IF body.kind = "notjson"
    THEN except_handler(row, <<"JSONDecodeError">>, 1, "json")
  ELSE IF body.kind = "nopath"
    THEN except_handler(row, <<"KeyError">>, 1, "path")
  ELSE IF body.kind = "answer_not_str"
    THEN except_handler(row, <<"TypeError">>, 1, "search")
  ELSE LET m == json_match(body.answer) IN
       IF ~m.found
         THEN except_handler(row, <<"NO_VALID_JSON">>, 1, "search")
       ELSE LET r == json_loads(m.group1) IN
            IF ~r.ok
              THEN except_handler(row, <<"JSONDecodeError">>, 1, "loads")
            ELSE IF ~r.isdict
              THEN except_handler(row, <<"AttributeError">>, 1, "fields")
            ELSE [kind |-> "return", exc |-> <<>>,
                  value |-> extracted_result(body.payload),
                  sent |-> 1, stage |-> "ok"]

\* mutant of process_excel_row: a failed call is sent a second time
process_excel_row_retry(row, oc) ==
  IF Len(row) < 2
    THEN except_handler(row, <<"IndexError">>, 0, "build")
  ELSE IF ~serializable(row[1]) \/ ~serializable(row[2])
    THEN except_handler(row, <<"TypeError">>, 0, "build")
  ELSE IF oc.net # "ok"
    THEN except_handler(row, <<oc.net>>, 2, "post")
  ELSE IF raise_for_status(oc.status)
    THEN except_handler(row, <<"HTTPError">>, 2, "status")
  ELSE extract(row, oc.body)

\* lines 66-122.  sent counts the calls of requests.post (line 89).
process_excel_row(row, oc) ==
  IF Len(row) < 2
    THEN except_handler(row, <<"IndexError">>, 0, "build")
  ELSE IF ~serializable(row[1]) \/ ~serializable(row[2])
    THEN except_handler(row, <<"TypeError">>, 0, "build")
  ELSE IF oc.net # "ok"
    THEN except_handler(row, <<oc.net>>, 1, "post")
  ELSE IF raise_for_status(oc.status)
    THEN except_handler(row, <<"HTTPError">>, 1, "status")
  ELSE extract(row, oc.body)

(***************************************************************************)
(* The checklist.  new_row[2], new_row[3], new_row[4] (lines 162-164) are  *)
(* Python indexes: the sequence positions are one more.                    *)
(***************************************************************************)
SummaryCol == 2
NumbersCol == 3
TextCol == 4

Widths == 0..(TextCol + 1 + ExtraCols)

StrCell(s) == [kind |-> "text", v |-> s]

\* the cell of data row i, column j; a dated checklist holds a datetime in the
\* label column of its first data row
Cell(i, j, dated) ==
  [kind |-> IF dated /\ i = 1 /\ j = 1 THEN "date" ELSE "text",
   v |-> <<"cell", ToString(i), ToString(j)>>]

Row(i, w, dated) == [j \in 1..w |-> Cell(i, j, dated)]

Header(w) == [j \in 1..w |-> StrCell(<<"head", ToString(j)>>)]

\* what ws.iter_rows yields (line 138): nothing for an empty sheet, else a
\* header and data rows of one width, which is at least one column
Sheets ==
  {<<>>} \cup
  {<<Header(w)>> \o [i \in 1..n |-> Row(i, w, dated)] :
     w \in Widths \ {0}, n \in 0..MaxRows, dated \in BOOLEAN}

(***************************************************************************)
(* What the remote service may answer.                                     *)
(***************************************************************************)
Statuses == {200, 204, 304, 404, 500}

RECURSIVE SeqsUpTo(_, _)
SeqsUpTo(S, n) ==
  IF n = 0 THEN {<<>>}
  ELSE LET shorter == SeqsUpTo(S, n - 1) IN
       shorter \cup {Append(q, x) : q \in {r \in shorter : Len(r) = n - 1}, x \in S}

ListItems == {JStr(<<"a">>), JStr(<<"b">>)}

FieldValues ==
  {JAbsent, JNull, JStr(<<"1.1">>), JNum(<<"7">>)}
    \cup {JList(l) : l \in SeqsUpTo(ListItems, MaxListLen)}

Payloads ==
  [summary : FieldValues, clause_numbers : FieldValues, clause_text : FieldValues]

\* the payload of section 8 of the specification
ExamplePayload ==
  [summary |-> JList(<<JStr(<<"a">>), JStr(<<"b">>)>>),
   clause_numbers |-> JStr(<<"1.1">>),
   clause_text |-> JNull]

WellFormedAnswer == <<"fence_json", "ws", "obj", "ws", "fence">>

Body(kind, answer, payload) ==
  [kind |-> kind, answer |-> answer, payload |-> payload]

Bodies ==
  {Body(k, <<>>, ExamplePayload) : k \in {"notjson", "nopath", "answer_not_str"}}
    \cup {Body("answer", a, ExamplePayload) : a \in SeqsUpTo(AnswerTokens, MaxAnswerLen)}
    \cup {Body("answer", WellFormedAnswer, p) : p \in Payloads}

Outcome(net, status, body) == [net |-> net, status |-> status, body |-> body]

Outcomes ==
  {Outcome(n, 200, Body("notjson", <<>>, ExamplePayload)) :
     n \in {"ConnectionError", "Timeout"}}
    \cup {Outcome("ok", st, b) : st \in Statuses, b \in Bodies}

\* the ways the service fails during a run of the pipeline: it times out, or
\* it answers without a fenced block
ServiceFailures ==
  {Outcome("Timeout", 200, Body("notjson", <<>>, ExamplePayload)),
   Outcome("ok", 200, Body("answer", <<"txt">>, ExamplePayload))}

\* the answers a row gets in a run whose service fails as `failure`
PipelineOutcomes(failure) ==
  {Outcome("ok", 200, Body("answer", WellFormedAnswer, ExamplePayload)), failure}

(***************************************************************************)
(* One invocation of process_excel_row on its own.                         *)
(***************************************************************************)
NoReturn ==
  [kind |-> "none", exc |-> <<>>, value |-> NoValue, sent |-> 0, stage |-> "none"]

IdleUnit ==
  [pc |-> "idle", row |-> <<>>,
   oc |-> Outcome("ok", 200, Body("notjson", <<>>, ExamplePayload)),
   ret |-> NoReturn]

UnitRows == {Row(1, w, dated) : w \in Widths, dated \in BOOLEAN}

RowInit ==
  /\ unit \in {[pc |-> "call", row |-> r, oc |-> o, ret |-> NoReturn] :
                 r \in UnitRows, o \in Outcomes}

RowCall ==
  /\ unit.pc = "call"
  /\ unit' = [unit EXCEPT !.pc = "returned",
                          !.ret = process_excel_row(unit.row, unit.oc)]
  /\ UNCHANGED <<norm, pipeVars>>

(***************************************************************************)
(* read_word_file on its own: a document is typed paragraph by paragraph,  *)
(* then read.                                                              *)
(***************************************************************************)
IdleNorm == [pc |-> "idle", paras |-> <<>>, out |-> <<>>]

RECURSIVE TotalLen(_)
TotalLen(paras) ==
  IF paras = <<>> THEN 0 ELSE Len(Head(paras)) + TotalLen(Tail(paras))

NewParagraph ==
  /\ norm.pc = "typing"
  /\ Len(norm.paras) < MaxParas
  /\ norm' = [norm EXCEPT !.paras = Append(@, <<>>)]
  /\ UNCHANGED <<unit, pipeVars>>

TypeChar ==
  /\ norm.pc = "typing"
  /\ norm.paras # <<>>
  /\ TotalLen(norm.paras) < MaxChars
  /\ \E c \in Alphabet :
       norm' = [norm EXCEPT !.paras[Len(norm.paras)] = Append(@, c)]
  /\ UNCHANGED <<unit, pipeVars>>

ReadDocument ==
  /\ norm.pc = "typing"
  /\ norm' = [norm EXCEPT !.pc = "read", !.out = read_word_file(norm.paras)]
  /\ UNCHANGED <<unit, pipeVars>>

(***************************************************************************)
(* __main__, load_config and process_documents (lines 24-38, 132-191).     *)
(*   pc: "main" -> "checklist" -> "doc" <-> "row" -> ... -> "exit"         *)
(*   files[d] is the result file of document d (NoFile: none written);     *)
(*   calls, results and docStatus record what the run did.                 *)
(***************************************************************************)
NoFile == <<>>

Docs == 1..MaxDocs

ErrorHeader == StrCell(<<"error">>)

\* the paragraphs of the d-th configured document
DocParagraphs(d) ==
  [k \in 1..d |-> <<"a", "ideo", "ctl", "a">>] \o <<<<"sp", "nl">>>>

PipeInit ==
  /\ pc = "main"
  /\ cfg = [loaded |-> FALSE, ndocs |-> 0, complete |-> FALSE, exit |-> "running",
            failure |-> Outcome("Timeout", 200, Body("notjson", <<>>, ExamplePayload))]
  /\ rows = <<>>
  /\ headers = <<>>
  /\ docIdx = 0
  /\ rowIdx = 0
  /\ file_text = <<>>
  /\ new_ws = <<>>
  /\ files = [d \in Docs |-> NoFile]
  /\ calls = <<>>
  /\ results = [d \in Docs |-> <<>>]
  /\ docStatus = [d \in Docs |-> "pending"]

\* lines 188, 24-35: the configuration loads, with its list of documents.
\* load_config reads word_paths and excel_path only: a configuration without
\* api_url or auth_token (complete = FALSE) loads as well.  api_url names the
\* service, and with it the way the service fails.
LoadConfig ==
  /\ pc = "main"
  /\ \E n \in 0..MaxDocs, c \in BOOLEAN, f \in ServiceFailures :
       cfg' = [cfg EXCEPT !.loaded = TRUE, !.ndocs = n, !.complete = c,
                          !.failure = f]
  /\ pc' = "checklist"
  /\ UNCHANGED <<norm, unit, rows, headers, docIdx, rowIdx, file_text, new_ws,
                 files, calls, results, docStatus>>

\* lines 36-38, 190-191: load_config raises and the program ends
LoadConfigFails ==
  /\ pc = "main"
  /\ cfg' = [cfg EXCEPT !.exit = "config"]
  /\ pc' = "exit"
  /\ UNCHANGED <<norm, unit, rows, headers, docIdx, rowIdx, file_text, new_ws,
                 files, calls, results, docStatus>>

\* lines 136-139
LoadChecklist ==
  /\ pc = "checklist"
  /\ \E sheet \in Sheets \ {<<>>} :
       /\ rows' = sheet
       /\ headers' = Append(sheet[1], ErrorHeader)
  /\ docIdx' = 1
  /\ pc' = "doc"
  /\ UNCHANGED <<norm, unit, cfg, rowIdx, file_text, new_ws, files, calls,
                 results, docStatus>>

\* lines 136-139, 181-183, 190-191: load_workbook raises, or the sheet is
\* empty and rows[0] raises IndexError; process_documents re-raises
LoadChecklistFails ==
  /\ pc = "checklist"
  /\ \E why \in {"checklist_unreadable", "checklist_empty"} :
       cfg' = [cfg EXCEPT !.exit = why]
  /\ pc' = "exit"
  /\ UNCHANGED <<norm, unit, rows, headers, docIdx, rowIdx, file_text, new_ws,
                 files, calls, results, docStatus>>

\* mutant of created_sheet: the worksheet of the document before is reused
created_sheet_stale == Append(new_ws, headers)

\* lines 148-150
created_sheet == <<headers>>

\* lines 145-150: the document is read and a new workbook gets the header
ReadWord ==
  /\ pc = "doc"
  /\ docIdx <= cfg.ndocs
  /\ file_text' = read_word_file(DocParagraphs(docIdx))
  /\ new_ws' = created_sheet
  /\ rowIdx' = 1
  /\ docStatus' = [docStatus EXCEPT ![docIdx] = "running"]
  /\ pc' = "row"
  /\ UNCHANGED <<norm, unit, cfg, rows, headers, docIdx, files, calls, results>>

\* mutant of after_failure: the loop over the documents is left
after_failure_break(d) == cfg.ndocs + 1

\* lines 177-179: continue with the next document
after_failure(d) == d + 1

\* lines 145, 61-63, 177-179: read_word_file raises
ReadWordFails ==
  /\ pc = "doc"
  /\ docIdx <= cfg.ndocs
  /\ docStatus' = [docStatus EXCEPT ![docIdx] = "read_failed"]
  /\ docIdx' = after_failure(docIdx)
  /\ UNCHANGED <<norm, unit, pc, cfg, rows, headers, rowIdx, file_text, new_ws,
                 files, calls, results>>

\* mutant of output_row: the content columns are written one position early
output_row_shifted(row, ret) ==
  IF ret.kind # "return" THEN Append(row, StrCell(ret.exc))
  ELSE LET new_row == Append(row, StrCell(ret.value.error)) IN
       IF Len(new_row) < TextCol + 1
         THEN Append(row, StrCell(<<"IndexError">>))
         ELSE [new_row EXCEPT ![SummaryCol] = StrCell(ret.value.summary),
                              ![NumbersCol] = StrCell(ret.value.clause_numbers),
                              ![TextCol] = StrCell(ret.value.clause_text)]

\* lines 161-168: the row appended for `row`.  An IndexError of lines
\* 162-164 (a row of fewer than four cells) and an exception of lines 155-160
\* reach the handler of line 166.
output_row(row, ret) ==
  IF ret.kind # "return" THEN Append(row, StrCell(ret.exc))
  ELSE LET new_row == Append(row, StrCell(ret.value.error)) IN
       IF Len(new_row) < TextCol + 1
         THEN Append(row, StrCell(<<"IndexError">>))
         ELSE [new_row EXCEPT ![SummaryCol + 1] = StrCell(ret.value.summary),
                              ![NumbersCol + 1] = StrCell(ret.value.clause_numbers),
                              ![TextCol + 1] = StrCell(ret.value.clause_text)]

\* lines 155-160: config['api_url'] raises KeyError before the call when the
\* configuration lacks the key; process_excel_row is then not invoked
invoke(row, oc) ==
  IF ~cfg.complete
    THEN [kind |-> "none", exc |-> <<"KeyError">>, value |-> NoValue,
          sent |-> 0, stage |-> "config"]
    ELSE process_excel_row(row, oc)

CallRecord(d, i, row, text) ==
  [doc |-> d, row |-> i, query |-> SubSeq(row, 1, 2), file |-> text]

\* mutant of next_row: the row after the next one
next_row_skips(i) == i + 2

\* line 153: enumerate(rows[1:], start=1)
next_row(i) == i + 1

\* lines 153-168: one iteration of the loop over the data rows
ProcessRow ==
  /\ pc = "row"
  /\ rowIdx <= Len(rows) - 1
  /\ \E oc \in PipelineOutcomes(cfg.failure) :
       LET row == rows[rowIdx + 1]
           ret == invoke(row, oc)
       IN  /\ new_ws' = Append(new_ws, output_row(row, ret))
           /\ results' = [results EXCEPT ![docIdx] = Append(@, ret)]
           /\ calls' = calls \o [k \in 1..ret.sent |->
                                   CallRecord(docIdx, rowIdx, row, file_text)]
  /\ rowIdx' = next_row(rowIdx)
  /\ UNCHANGED <<norm, unit, pc, cfg, rows, headers, docIdx, file_text, files,
                 docStatus>>

\* lines 171-175: the workbook is saved beside the document
SaveWorkbook ==
  /\ pc = "row"
  /\ rowIdx > Len(rows) - 1
  /\ files' = [files EXCEPT ![docIdx] = new_ws]
  /\ docStatus' = [docStatus EXCEPT ![docIdx] = "saved"]
  /\ docIdx' = docIdx + 1
  /\ pc' = "doc"
  /\ UNCHANGED <<norm, unit, cfg, rows, headers, rowIdx, file_text, new_ws,
                 calls, results>>

\* lines 174, 177-179: new_wb.save raises
SaveWorkbookFails ==
  /\ pc = "row"
  /\ rowIdx > Len(rows) - 1
  /\ docStatus' = [docStatus EXCEPT ![docIdx] = "save_failed"]
  /\ docIdx' = after_failure(docIdx)
  /\ pc' = "doc"
  /\ UNCHANGED <<norm, unit, cfg, rows, headers, rowIdx, file_text, new_ws,
                 files, calls, results>>

\* line 142: the list of documents is exhausted
Finish ==
  /\ pc = "doc"
  /\ docIdx > cfg.ndocs
  /\ cfg' = [cfg EXCEPT !.exit = "completed"]
  /\ pc' = "exit"
  /\ UNCHANGED <<norm, unit, rows, headers, docIdx, rowIdx, file_text, new_ws,
                 files, calls, results, docStatus>>

(***************************************************************************)
(* The specifications.                                                     *)
(***************************************************************************)
Init == PipeInit /\ unit = IdleUnit /\ norm = IdleNorm

Next ==
  \/ LoadConfig \/ LoadConfigFails
  \/ LoadChecklist \/ LoadChecklistFails
  \/ ReadWord \/ ReadWordFails
  \/ ProcessRow
  \/ SaveWorkbook \/ SaveWorkbookFails
  \/ Finish

Spec == Init /\ [][Next]_vars

UnitInit == PipeInit /\ RowInit /\ norm = IdleNorm

SpecRow == UnitInit /\ [][RowCall]_vars

NormInit ==
  PipeInit /\ unit = IdleUnit /\ norm = [pc |-> "typing", paras |-> <<>>, out |-> <<>>]

NormNext == NewParagraph \/ TypeChar \/ ReadDocument

SpecNorm == NormInit /\ [][NormNext]_vars

(***************************************************************************)
(* Properties of one invocation of process_excel_row (SpecRow).            *)
(***************************************************************************)
Returned == unit.pc = "returned"

IsFailureResult(v) ==
  /\ v.summary = FailureSentinel
  /\ v.clause_numbers = FailureSentinel
  /\ v.clause_text = FailureSentinel
  /\ v.error # <<>>

\* C1: every invocation of process_excel_row ends by returning a RowResult,
\* whatever the width of the row and whatever the service answers.
C1_NeverRaises == Returned => unit.ret.kind = "return"

\* a failure the claim lists: network failure or timeout, an error status,
\* no data.outputs.Answer, no fenced json block
ListedFailure ==
  \/ unit.oc.net # "ok"
  \/ unit.oc.status \in {404, 500}
  \/ unit.oc.body.kind = "nopath"
  \/ /\ unit.oc.body.kind = "answer"
     /\ \A i \in 1..Len(unit.oc.body.answer) : unit.oc.body.answer[i] # "fence_json"

\* C2: in a returned RowResult error is empty exactly when extraction
\* succeeded, and after any failure the three content fields hold the failure
\* sentinel and error is not empty.
C2_ErrorIffSucceeded ==
  (Returned /\ unit.ret.kind = "return") =>
    /\ (unit.ret.value.error = <<>>) <=> (unit.ret.stage = "ok")
    /\ unit.ret.stage # "ok" => IsFailureResult(unit.ret.value)
    /\ ListedFailure => unit.ret.stage # "ok"

C2_Witness ==
  /\ Returned
  /\ unit.ret.stage = "loads"
  /\ unit.ret.value.summary = FailureSentinel
  /\ unit.ret.value.error = <<"JSONDecodeError">>

\* the display string the specification gives a field of the decoded payload
Normalized(f) ==
  IF f.t = "list" THEN join(<<"nl">>, [i \in 1..Len(f.items) |-> py_str(f.items[i])])
  ELSE IF f.t \in {"absent", "null"} THEN NotExtracted
  ELSE f.s

\* C3: after a successful extraction each content field is its payload field
\* normalized: a list joined with newlines, a scalar as its string, an absent
\* key or a null value as the "not extracted" marker.
C3_FieldsNormalized ==
  (Returned /\ unit.ret.stage = "ok") =>
    \A k \in {"summary", "clause_numbers", "clause_text"} :
      unit.ret.value[k] = Normalized(unit.oc.body.payload[k])

\* C10 as claimed: a call answered with a status outside 200..299 returns
\* the failure result (sentinel content, non-empty error), whatever the body.
C10_NonSuccessStatusFails ==
  (Returned /\ unit.ret.sent = 1 /\ unit.oc.net = "ok"
     /\ ~(200 <= unit.oc.status /\ unit.oc.status <= 299)) =>
    IsFailureResult(unit.ret.value)

\* C10 as amended: a call answered with an error status (400..599) returns
\* the failure result, and the body is not looked at, also when the body
\* holds a well-formed fenced JSON answer.
C10_ErrorStatusFails ==
  (Returned /\ unit.ret.sent = 1 /\ unit.oc.net = "ok"
     /\ 400 <= unit.oc.status /\ unit.oc.status <= 599) =>
    /\ unit.ret.stage = "status"
    /\ unit.ret.kind = "return"
    /\ IsFailureResult(unit.ret.value)

C10_Witness ==
  /\ Returned
  /\ unit.oc.net = "ok"
  /\ unit.oc.status = 404
  /\ unit.oc.body = Body("answer", WellFormedAnswer, ExamplePayload)
  /\ unit.ret.sent = 1
  /\ unit.ret.value.error = <<"HTTPError">>

(***************************************************************************)
(* Properties of read_word_file (SpecNorm).                                *)
(***************************************************************************)
HasTripleNewline(s) ==
  \E i \in 1..(Len(s) - 2) : s[i] = "nl" /\ s[i + 1] = "nl" /\ s[i + 2] = "nl"

DataRows == Len(rows) - 1

ContentPositions == {SummaryCol + 1, NumbersCol + 1, TextCol + 1}

Attempted(d) == docStatus[d] \in {"read_failed", "save_failed", "saved"}

\* the rows are all processed and the workbook is about to be saved
AtSave == pc = "row" /\ rowIdx > DataRows

DerivedFrom(out, row) ==
  /\ Len(out) = Len(row) + 1
  /\ \A j \in 1..Len(row) : j \notin ContentPositions => out[j] = row[j]

\* C4: a table that reaches persistence has exactly one data row per
\* checklist data row after the header, the i-th made from the i-th.
C4_OneRowPerChecklistRow ==
  /\ AtSave =>
       /\ Len(new_ws) = DataRows + 1
       /\ \A i \in 1..DataRows : DerivedFrom(new_ws[i + 1], rows[i + 1])
  /\ \A d \in Docs : files[d] # NoFile =>
       /\ Len(files[d]) = DataRows + 1
       /\ \A i \in 1..DataRows : DerivedFrom(files[d][i + 1], rows[i + 1])

C4_Witness ==
  \E d \in Docs :
    /\ files[d] # NoFile
    /\ DataRows = 2
    /\ results[d][1].stage = "post"
    /\ results[d][2].stage = "ok"

\* the table a run over document d alone writes for the answers d's rows got
ExpectedTable(d) ==
  <<Append(rows[1], ErrorHeader)>>
    \o [i \in 1..Len(results[d]) |-> output_row(rows[i + 1], results[d][i])]

Failed(d) == docStatus[d] \in {"read_failed", "save_failed"}

\* C5: when a document fails, every later document is still attempted, and
\* every document that does not fail gets a result file that holds what its
\* own rows and answers give, whatever happened to the other documents.
C5_DocumentIsolation ==
  \A d \in Docs : Failed(d) =>
    /\ pc = "exit" => \A e \in (d + 1)..cfg.ndocs : Attempted(e)
    /\ \A e \in Docs \ {d} :
         /\ docStatus[e] = "saved" =>
              /\ Len(results[e]) = DataRows
              /\ files[e] = ExpectedTable(e)
         /\ (pc = "exit" /\ e <= cfg.ndocs /\ ~Failed(e)) => files[e] # NoFile

C5_Witness ==
  /\ pc = "exit"
  /\ docStatus[1] = "save_failed"
  /\ Len(results[1]) = 1
  /\ docStatus[2] = "saved"
  /\ Len(files[2]) = 2

\* C6 as claimed: once the configuration has loaded, every configured
\* document is attempted before the run ends.
C6_OnlyConfigFailureTerminates ==
  (pc = "exit" /\ cfg.loaded) => \A d \in 1..cfg.ndocs : Attempted(d)

\* C6 as amended: the run ends early only on a configuration load failure or
\* on a failure to read the checklist; once both are loaded every configured
\* document is attempted, whatever failed on the way.
C6_AllAttemptedOnceChecklistRead ==
  pc = "exit" =>
    \/ cfg.exit = "config" /\ ~cfg.loaded
    \/ /\ cfg.exit \in {"checklist_unreadable", "checklist_empty"}
       /\ cfg.loaded /\ rows = <<>>
    \/ /\ cfg.exit = "completed" /\ cfg.loaded /\ rows # <<>>
       /\ \A d \in 1..cfg.ndocs : Attempted(d)

C6_Witness ==
  /\ pc = "exit"
  /\ cfg.ndocs = 2
  /\ docStatus[1] = "read_failed"
  /\ docStatus[2] = "save_failed"
  /\ \E i \in 1..Len(results[2]) : results[2][i].stage = "search"

CallsOf(d) == SelectSeq(calls, LAMBDA c : c.doc = d)

\* the request of a row can be built (lines 70-74)
Buildable(row) == Len(row) >= 2 /\ serializable(row[1]) /\ serializable(row[2])

\* process_excel_row was invoked for row i of document d
Invoked(d, i) == results[d][i].kind # "none"

\* C7 as claimed: every invocation issues exactly one call, so the calls of
\* a document are the rows it was invoked for so far, one each, in order.
C7_ExactlyOneCallPerRow ==
  \A d \in Docs :
    [k \in 1..Len(CallsOf(d)) |-> CallsOf(d)[k].row]
      = SelectSeq([i \in 1..Len(results[d]) |-> i], LAMBDA i : Invoked(d, i))

\* C7 as amended: every invocation issues at most one call, exactly one when
\* its request can be built and none otherwise; the calls of a document are
\* the buildable rows processed so far, one each, in row order.
C7_OneCallPerBuiltRow ==
  \A d \in Docs :
    /\ [k \in 1..Len(CallsOf(d)) |-> CallsOf(d)[k].row]
         = SelectSeq([i \in 1..Len(results[d]) |-> i],
                     LAMBDA i : Invoked(d, i) /\ Buildable(rows[i + 1]))
    /\ \A k \in 1..Len(CallsOf(d)) :
         CallsOf(d)[k].query = SubSeq(rows[CallsOf(d)[k].row + 1], 1, 2)

C7_Witness ==
  \E d \in Docs :
    /\ docStatus[d] = "saved"
    /\ DataRows = 2
    /\ results[d][1].stage = "post"
    /\ results[d][2].stage = "ok"
    /\ Len(CallsOf(d)) = 2

\* the table row `out` is the checklist row with the content columns replaced
\* by the fields of the RowResult and its error appended last
ShapedRow(out, row, res) ==
  /\ Len(out) = Len(row) + 1
  /\ out[Len(out)] = StrCell(res.error)
  /\ \A j \in 1..Len(row) :
       /\ j = SummaryCol + 1 => out[j] = StrCell(res.summary)
       /\ j = NumbersCol + 1 => out[j] = StrCell(res.clause_numbers)
       /\ j = TextCol + 1 => out[j] = StrCell(res.clause_text)
       /\ j \notin ContentPositions => out[j] = row[j]

\* C8 as claimed: in every persisted table the header is the checklist header
\* and `error`, and every data row for which a RowResult was returned is
\* shaped as above, whatever its width.
C8_OutputShapeAnyWidth ==
  \A d \in Docs : files[d] # NoFile =>
    /\ files[d][1] = Append(rows[1], ErrorHeader)
    /\ \A i \in 1..DataRows :
         results[d][i].kind = "return" =>
           ShapedRow(files[d][i + 1], rows[i + 1], results[d][i].value)

\* C8 as amended: the same, for the rows of at least five columns (so that
\* positions 2, 3 and 4 lie before the appended column).
C8_OutputShapeFiveColumns ==
  \A d \in Docs : files[d] # NoFile =>
    /\ files[d][1] = Append(rows[1], ErrorHeader)
    /\ \A i \in 1..DataRows :
         (results[d][i].kind = "return" /\ Len(rows[i + 1]) >= TextCol + 1) =>
           ShapedRow(files[d][i + 1], rows[i + 1], results[d][i].value)

C8_Witness ==
  \E d \in Docs :
    /\ files[d] # NoFile
    /\ DataRows = 2
    /\ Len(rows[2]) = TextCol + 1
    /\ results[d][1].stage = "ok"
    /\ results[d][2].stage = "post"
    /\ files[d][2][SummaryCol + 1] = StrCell(<<"a", "nl", "b">>)

====
